---------------------------- MODULE Spec2Model ----------------------------
(***************************************************************************)
(* A model of craft's release/publish orchestration:                       *)
(*   - the `release` command handler (commands/release.ts),                *)
(*   - the artifact store ZeusStore (stores/zeus.ts),                      *)
(*   - BaseTarget / GithubTarget / PypiTarget (targets/*.ts).              *)
(* The program is started either as `craft release` or as `craft publish`. *)
(***************************************************************************)
EXTENDS Integers, Sequences, FiniteSets, TLC

VARIABLES
    command,     \* which CLI command this process runs: "release" | "publish"
    dryRun,      \* the process-wide dry-run flag (isDryRun())
    argv,        \* ReleaseOptions of the release handler
    pc,          \* position of the release handler
    git,         \* the local repository the simple-git client talks to
    gitAtStart,  \* the repository as it was when the command was started
    entered,     \* the handler steps begun in this run, in order
    failure,     \* the error caught by the handler's try/catch ("none" if none)
    calls,       \* how often each collaborator method has been invoked
    exitCode,    \* argument of process.exit ("none" while the process lives)
    tape,        \* recorded collaborator responses (only while taping)
    taping,      \* TRUE when responses are recorded for a second execution
    firstRun,    \* outcome of the first of two executions on the same inputs
    targets,       \* the constructed targets: kind and own filterOptions
    tpc,           \* position of each target's publish()
    release,       \* the release each GithubTarget.publish got (id, -1 before)
    calledAfter,   \* the targets whose getOrCreateRelease had returned when
                   \* this target called getOrCreateRelease
    listPromise,   \* the listing promise each target awaits (0: none)
    filterArg,     \* the filterOptions each target passed to the store
    received,      \* the listing each target's filterArtifactsForRevision awaited
    artifacts,     \* the filtered artifact list each publish() works on
    subs,          \* per target and artifact: the upload task's position and path
    downloadCache, \* ZeusStore.downloadCache: download_url -> promise (0: no entry)
    fileListCache, \* ZeusStore.fileListCache: revision -> promise (0: no entry)
    promises,      \* the promises the Zeus client has returned, in call order
    env,           \* process.env: which credentials are set
    revisionInfo,  \* what getRevision returned (NoRevision before)
    answers,       \* what each isRevision... predicate answered for it
    lookedUp,      \* the name given to getTargetByName and what it returned
    creation,      \* per target, what its getOrCreateRelease has seen and sent
    ghRelease      \* GitHub's release for the tag: its id, 0 when there is none

relVars == <<command, dryRun, argv, pc, git, gitAtStart, entered, failure,
             exitCode, tape, taping, firstRun>>

pubVars == <<targets, tpc, release, calledAfter, listPromise, filterArg,
             received, artifacts, subs, downloadCache,
             fileListCache, promises, env, revisionInfo, answers, lookedUp,
             creation, ghRelease>>

queryVars == <<revisionInfo, answers, lookedUp>>

-----------------------------------------------------------------------------
(* Bounds *)

\* how many kinds of pending change the work tree holds before the run
MaxDirtyKinds == 1

\* how many artifacts a listing handed to the store's filter holds
MaxListing == 2

-----------------------------------------------------------------------------
(* The dry-run gate (package 'dryrun') *)

isDryRun == dryRun

shouldPerform == ~dryRun

\* utils/errors reportError: raises the error it is given; the release steps
\* that call it fail fatally.
reportError == TRUE

-----------------------------------------------------------------------------
(* The local repository, as simple-git reports it *)

StatusLists == {"conflicted", "created", "deleted", "modified", "renamed", "staged"}

DefaultBranch == "master"

ReleaseBranch == "release/1.0.0"

GitStates ==
    [isRepo   : BOOLEAN,
     current  : {DefaultBranch, "feature"},
     dirty    : {d \in SUBSET StatusLists : Cardinality(d) <= MaxDirtyKinds},
     ahead    : 0..1,
     branches : {{DefaultBranch}, {DefaultBranch, ReleaseBranch}}]

Methods == {"status", "revparse", "checkoutLocalBranch", "spawnProcess",
            "commit", "push", "sleepAsync", "publishMain",
            "getReleaseByTag", "getContent", "createRelease", "uploadAsset",
            "twineUpload"}

NoCalls == [m \in Methods |-> 0]

NoRun == [done |-> FALSE, steps |-> <<>>, failure |-> "none", exit |-> "none"]

\* A collaborator response: the recorded one when this execution replays a
\* tape, any of the possible ones otherwise.
Response(key, possible) ==
    IF taping /\ key \in DOMAIN tape THEN {tape[key]} ELSE possible

Record(f) ==
    tape' = IF taping THEN f @@ tape ELSE tape

Call(ms) == calls' = [m \in DOMAIN calls |-> IF m \in ms THEN calls[m] + 1 ELSE calls[m]]

-----------------------------------------------------------------------------
(* The release handler: one action per awaited call of its try block *)

\* handler with the commit and the push in each other's place
handlerReordered(step) ==
    CASE step = "checkChangelog"       -> "getGithubClient"
      [] step = "getGithubClient"      -> "getDefaultBranch"
      [] step = "getDefaultBranch"     -> "checkGitState"
      [] step = "checkGitState"        -> "createReleaseBranch"
      [] step = "createReleaseBranch"  -> "runPreReleaseCommand"
      [] step = "runPreReleaseCommand" -> "pushReleaseBranch"
      [] step = "pushReleaseBranch"    -> "commitNewVersion"
      [] step = "commitNewVersion"     -> "finish"

\* the statement the handler runs after `step` returns normally
handler(step) ==
    CASE step = "checkChangelog"       -> "getGithubClient"
      [] step = "getGithubClient"      -> "getDefaultBranch"
      [] step = "getDefaultBranch"     -> "checkGitState"
      [] step = "checkGitState"        -> "createReleaseBranch"
      [] step = "createReleaseBranch"  -> "runPreReleaseCommand"
      [] step = "runPreReleaseCommand" -> "commitNewVersion"
      [] step = "commitNewVersion"     -> "pushReleaseBranch"
      [] step = "pushReleaseBranch"    -> "finish"

\* Return with a step's error logged where it is raised instead of ending
\* the try block
ReturnSwallowed(step, err) ==
    /\ entered' = Append(entered, step)
    /\ pc' = handler(step)
    /\ failure' = IF err = "ok" THEN failure ELSE err

\* Return without the catch block: the error leaves the handler, whose
\* promise is rejected
ReturnPropagated(step, err) ==
    /\ entered' = Append(entered, step)
    /\ IF err = "ok"
         THEN pc' = handler(step) /\ failure' = failure
         ELSE pc' = "rejected" /\ failure' = err

\* `step` has run and returned normally (err = "ok") or thrown err, which
\* the handler's catch block logs before the handler returns.
Return(step, err) ==
    /\ entered' = Append(entered, step)
    /\ IF err = "ok"
         THEN pc' = handler(step) /\ failure' = failure
         ELSE pc' = "returned" /\ failure' = err

\* checkChangelog that accepts a section without a body
checkChangelogNoBodyTest(changelogPolicy, changelog) ==
    IF changelogPolicy = "none" THEN "ok"
    ELSE IF changelogPolicy = "simple" THEN
        CASE changelog = "badPath"   -> "InvalidChangelogPath"
          [] changelog = "missing"   -> "ChangelogDoesNotExist"
          [] changelog = "noEntry"   -> "NoChangelogEntry"
          [] OTHER                   -> "ok"
    ELSE "InvalidChangelogPolicy"

\* checkChangelog, given the policy and what is found at changelogPath: a
\* path that leaves the working directory ("badPath"), no file ("missing"),
\* a file in which findChangeset finds no section for the version
\* ("noEntry"), a section with an empty body ("emptyBody"), or a section
\* with a body ("ok")
checkChangelog(changelogPolicy, changelog) ==
    IF changelogPolicy = "none" THEN "ok"
    ELSE IF changelogPolicy = "simple" THEN
        CASE changelog = "badPath"   -> "InvalidChangelogPath"
          [] changelog = "missing"   -> "ChangelogDoesNotExist"
          [] changelog = "noEntry"   -> "NoChangelogEntry"
          [] changelog = "emptyBody" -> "NoChangelogEntry"
          [] OTHER                   -> "ok"
    ELSE "InvalidChangelogPolicy"

CheckChangelog ==
    /\ command = "release" /\ pc = "checkChangelog"
    /\ \E cfg \in IF argv.noChangelog THEN {"unread"}
                  ELSE Response("changelogPolicy", {"undefined", "none", "simple", "auto"}) :
         LET policy == IF argv.noChangelog \/ cfg = "undefined" THEN "none" ELSE cfg IN
         \E file \in IF policy = "simple"
                     THEN Response("changelog", {"badPath", "missing", "noEntry", "emptyBody", "ok"})
                     ELSE {"unread"} :
            /\ Return("checkChangelog", checkChangelog(policy, file))
            /\ Record((IF cfg = "unread" THEN <<>> ELSE "changelogPolicy" :> cfg)
                      @@ (IF file = "unread" THEN <<>> ELSE "changelog" :> file))
    /\ UNCHANGED <<command, dryRun, argv, gitAtStart, git, calls, exitCode, taping, firstRun, pubVars>>

\* getGithubClient that builds a client without a token
getGithubClientNoTokenTest(token) == "ok"

getGithubClient(token) ==
    IF token = "unset" THEN "GithubTokenNotFound" ELSE "ok"

GetGithubClient ==
    /\ command = "release" /\ pc = "getGithubClient"
    /\ \E token \in Response("GITHUB_API_TOKEN", {"set", "unset"}) :
         /\ Return("getGithubClient", getGithubClient(token))
         /\ Record("GITHUB_API_TOKEN" :> token)
    /\ UNCHANGED <<command, dryRun, argv, gitAtStart, git, calls, exitCode, taping, firstRun, pubVars>>

GetDefaultBranch ==
    /\ command = "release" /\ pc = "getDefaultBranch"
    /\ \E r \in Response("getDefaultBranch", {"ok", "fail"}) :
         /\ Return("getDefaultBranch", IF r = "ok" THEN "ok" ELSE "GetDefaultBranchFailed")
         /\ Record("getDefaultBranch" :> r)
    /\ UNCHANGED <<command, dryRun, argv, gitAtStart, git, calls, exitCode, taping, firstRun, pubVars>>

\* checkGitState without the test of the staged list
checkGitStateNoStaged(g, defaultBranch, checkGitStatus) ==
    IF ~checkGitStatus THEN "ok"
    ELSE IF ~g.isRepo THEN "NotAGitRepository"
    ELSE IF defaultBranch # g.current /\ reportError THEN "NotOnDefaultBranch"
    ELSE IF /\ \/ "conflicted" \in g.dirty
               \/ "created" \in g.dirty
               \/ "deleted" \in g.dirty
               \/ "modified" \in g.dirty
               \/ "renamed" \in g.dirty
            /\ reportError THEN "DirtyRepository"
    ELSE IF g.ahead > 0 /\ reportError THEN "UnpushedChanges"
    ELSE "ok"

checkGitState(g, defaultBranch, checkGitStatus) ==
    IF ~checkGitStatus THEN "ok"
    ELSE IF ~g.isRepo THEN "NotAGitRepository"
    ELSE IF defaultBranch # g.current /\ reportError THEN "NotOnDefaultBranch"
    ELSE IF /\ \/ "conflicted" \in g.dirty
               \/ "created" \in g.dirty
               \/ "deleted" \in g.dirty
               \/ "modified" \in g.dirty
               \/ "renamed" \in g.dirty
               \/ "staged" \in g.dirty
            /\ reportError THEN "DirtyRepository"
    ELSE IF g.ahead > 0 /\ reportError THEN "UnpushedChanges"
    ELSE "ok"

CheckGitState ==
    /\ command = "release" /\ pc = "checkGitState"
    /\ Return("checkGitState", checkGitState(git, DefaultBranch, ~argv.noGitChecks))
    /\ Call(IF ~argv.noGitChecks /\ git.isRepo THEN {"status"} ELSE {})
    /\ UNCHANGED <<command, dryRun, argv, gitAtStart, git, exitCode, tape, taping, firstRun, pubVars>>

\* git.revparse([branchName]) on repository g
revparse(g, flaky) ==
    IF ~g.isRepo \/ flaky THEN "error"
    ELSE IF ReleaseBranch \in g.branches THEN "sha"
    ELSE "unknown revision"

\* createReleaseBranch with the dry-run test ahead of the look for the branch
createReleaseBranchDryRunFirst(branchHead, checkout) ==
    IF ~shouldPerform THEN [err |-> "ok", checkedOut |-> FALSE]
    ELSE IF branchHead = "error" THEN [err |-> "RevparseFailed", checkedOut |-> FALSE]
    ELSE IF branchHead = "sha" /\ reportError
        THEN [err |-> "BranchAlreadyExists", checkedOut |-> FALSE]
    ELSE [err |-> IF checkout = "ok" THEN "ok" ELSE "CheckoutFailed",
          checkedOut |-> TRUE]

\* createReleaseBranch that takes every error of revparse for 'unknown
\* revision'
createReleaseBranchAnyErrorUnknown(branchHead, checkout) ==
    IF branchHead = "sha" /\ reportError
        THEN [err |-> "BranchAlreadyExists", checkedOut |-> FALSE]
    ELSE IF shouldPerform
        THEN [err |-> IF checkout = "ok" THEN "ok" ELSE "CheckoutFailed",
              checkedOut |-> TRUE]
    ELSE [err |-> "ok", checkedOut |-> FALSE]

\* createReleaseBranch without the test of the branch revparse found
createReleaseBranchNoExistsTest(branchHead, checkout) ==
    IF branchHead = "error" THEN [err |-> "RevparseFailed", checkedOut |-> FALSE]
    ELSE IF shouldPerform
        THEN [err |-> IF checkout = "ok" THEN "ok" ELSE "CheckoutFailed",
              checkedOut |-> TRUE]
    ELSE [err |-> "ok", checkedOut |-> FALSE]

\* createReleaseBranch, given what revparse and checkoutLocalBranch answer:
\* the error thrown ("ok" if none) and whether checkoutLocalBranch was called
createReleaseBranch(branchHead, checkout) ==
    IF branchHead = "error" THEN [err |-> "RevparseFailed", checkedOut |-> FALSE]
    ELSE IF branchHead = "sha" /\ reportError
        THEN [err |-> "BranchAlreadyExists", checkedOut |-> FALSE]
    ELSE IF shouldPerform
        THEN [err |-> IF checkout = "ok" THEN "ok" ELSE "CheckoutFailed",
              checkedOut |-> TRUE]
    ELSE [err |-> "ok", checkedOut |-> FALSE]

CreateReleaseBranch ==
    /\ command = "release" /\ pc = "createReleaseBranch"
    /\ \E flaky \in Response("revparse", BOOLEAN) :
       \E checkout \in Response("checkoutLocalBranch", {"ok", "fail"}) :
         LET r == createReleaseBranch(revparse(git, flaky), checkout) IN
         /\ Return("createReleaseBranch", r.err)
         /\ Call({"revparse"} \cup IF r.checkedOut THEN {"checkoutLocalBranch"} ELSE {})
         /\ git' = IF r.checkedOut /\ r.err = "ok"
                     THEN [git EXCEPT !.current = ReleaseBranch,
                                      !.branches = @ \cup {ReleaseBranch}]
                     ELSE git
         /\ Record(("revparse" :> flaky)
                   @@ (IF r.checkedOut THEN "checkoutLocalBranch" :> checkout ELSE <<>>))
    /\ UNCHANGED <<command, dryRun, argv, gitAtStart, exitCode, taping, firstRun, pubVars>>

\* what the pre-release command may leave in the work tree
HookChanges ==
    {c \in SUBSET {"created", "deleted", "modified", "renamed"} :
        Cardinality(c) <= MaxDirtyKinds}

\* utils/system spawnProcess: runs the command; rejects on a non-zero exit
spawnProcess(exit) ==
    IF exit = "zero" THEN "ok" ELSE "ProcessFailed"

\* runPreReleaseCommand: the error thrown and whether a process was spawned
runPreReleaseCommand(preReleaseCommand, exit) ==
    IF preReleaseCommand = "empty"
        THEN [err |-> "ok", spawned |-> FALSE]
        ELSE [err |-> spawnProcess(exit), spawned |-> TRUE]

RunPreReleaseCommand ==
    /\ command = "release" /\ pc = "runPreReleaseCommand"
    /\ \E cmd \in Response("preReleaseCommand", {"empty", "custom", "undefined"}) :
       \E exit \in Response("hookExit", {"zero", "nonzero"}) :
       \E changes \in Response("hookChanges", HookChanges) :
         LET r == runPreReleaseCommand(cmd, exit) IN
         /\ Return("runPreReleaseCommand", r.err)
         /\ Call(IF r.spawned THEN {"spawnProcess"} ELSE {})
         /\ git' = IF r.spawned THEN [git EXCEPT !.dirty = @ \cup changes] ELSE git
         /\ Record(("preReleaseCommand" :> cmd)
                   @@ (IF r.spawned
                         THEN ("hookExit" :> exit) @@ ("hookChanges" :> changes)
                         ELSE <<>>))
    /\ UNCHANGED <<command, dryRun, argv, gitAtStart, exitCode, taping, firstRun, pubVars>>

\* commitNewVersion that takes a change of any kind for something to commit
commitNewVersionAnyChange(g, commit) ==
    IF ~g.isRepo THEN [err |-> "StatusFailed", committed |-> FALSE]
    ELSE IF g.dirty = {} /\ reportError
        THEN [err |-> "NothingToCommit", committed |-> FALSE]
    ELSE IF shouldPerform
        THEN [err |-> IF commit = "ok" THEN "ok" ELSE "CommitFailed",
              committed |-> TRUE]
    ELSE [err |-> "ok", committed |-> FALSE]

\* commitNewVersion: the error thrown and whether git.commit was called
commitNewVersion(g, commit) ==
    IF ~g.isRepo THEN [err |-> "StatusFailed", committed |-> FALSE]
    ELSE IF ~("created" \in g.dirty \/ "modified" \in g.dirty) /\ reportError
        THEN [err |-> "NothingToCommit", committed |-> FALSE]
    ELSE IF shouldPerform
        THEN [err |-> IF commit = "ok" THEN "ok" ELSE "CommitFailed",
              committed |-> TRUE]
    ELSE [err |-> "ok", committed |-> FALSE]

CommitNewVersion ==
    /\ command = "release" /\ pc = "commitNewVersion"
    /\ \E commit \in Response("commit", {"ok", "fail"}) :
         LET r == commitNewVersion(git, commit) IN
         /\ Return("commitNewVersion", r.err)
         /\ Call({"status"} \cup IF r.committed THEN {"commit"} ELSE {})
         /\ git' = IF r.committed /\ r.err = "ok"
                     THEN [git EXCEPT !.dirty = {}]
                     ELSE git
         /\ Record(IF r.committed THEN "commit" :> commit ELSE <<>>)
    /\ UNCHANGED <<command, dryRun, argv, gitAtStart, exitCode, taping, firstRun, pubVars>>

\* pushReleaseBranch without the dry-run test
pushReleaseBranchUngated(pushFlag, push) ==
    IF pushFlag
        THEN [err |-> IF push = "ok" THEN "ok" ELSE "PushFailed", pushed |-> TRUE]
        ELSE [err |-> "ok", pushed |-> FALSE]

\* pushReleaseBranch that pushes whatever pushFlag says
pushReleaseBranchIgnoringFlag(pushFlag, push) ==
    IF shouldPerform
        THEN [err |-> IF push = "ok" THEN "ok" ELSE "PushFailed", pushed |-> TRUE]
        ELSE [err |-> "ok", pushed |-> FALSE]

\* pushReleaseBranch: the error thrown and whether git.push was called
pushReleaseBranch(pushFlag, push) ==
    IF pushFlag /\ shouldPerform
        THEN [err |-> IF push = "ok" THEN "ok" ELSE "PushFailed", pushed |-> TRUE]
        ELSE [err |-> "ok", pushed |-> FALSE]

PushReleaseBranch ==
    /\ command = "release" /\ pc = "pushReleaseBranch"
    /\ \E push \in Response("push", {"ok", "fail"}) :
         LET r == pushReleaseBranch(~argv.noPush, push) IN
         /\ Return("pushReleaseBranch", r.err)
         /\ Call(IF r.pushed THEN {"push"} ELSE {})
         /\ Record(IF r.pushed THEN "push" :> push ELSE <<>>)
    /\ UNCHANGED <<command, dryRun, argv, gitAtStart, git, exitCode, taping, firstRun, pubVars>>

\* the end of the try block: hand over to execPublish, or report success
Finish ==
    /\ command = "release" /\ pc = "finish"
    /\ IF argv.publish
         THEN pc' = "execPublish" /\ entered' = Append(entered, "publishing")
         ELSE pc' = "returned" /\ entered' = Append(entered, "done")
    /\ UNCHANGED <<command, dryRun, argv, gitAtStart, git, failure, calls, exitCode,
                   tape, taping, firstRun, pubVars>>

\* execPublish that exits with 0 whatever publishMain did
execPublishAlwaysZero(published) == "0"

\* execPublish's try/catch around publishMain: the argument of process.exit
execPublish(published) ==
    IF published = "ok" THEN "0" ELSE "1"

\* execPublish: sleep (unless dry-run), publishMain, process.exit
ExecPublish ==
    /\ command = "release" /\ pc = "execPublish"
    /\ \E r \in Response("publishMain", {"ok", "fail"}) :
         /\ exitCode' = execPublish(r)
         /\ Record("publishMain" :> r)
    /\ Call({"publishMain"} \cup IF shouldPerform THEN {"sleepAsync"} ELSE {})
    /\ pc' = "exited"
    /\ UNCHANGED <<command, dryRun, argv, gitAtStart, git, entered, failure, taping, firstRun, pubVars>>

\* The same command is executed a second time on the same inputs (the same
\* repository state, the same collaborator responses) with the dry-run flag
\* flipped.
SecondExecution ==
    /\ command = "release" /\ taping /\ ~firstRun.done
    /\ pc \in {"returned", "exited"}
    /\ firstRun' = [done |-> TRUE, steps |-> entered, failure |-> failure,
                    exit |-> exitCode]
    /\ dryRun' = ~dryRun
    /\ git' = gitAtStart
    /\ pc' = "checkChangelog"
    /\ entered' = <<>>
    /\ failure' = "none"
    /\ exitCode' = "none"
    /\ calls' = NoCalls
    /\ UNCHANGED <<command, argv, gitAtStart, tape, taping, pubVars>>

\* A failed run is followed by another `craft release` for the same version,
\* with the same options and configuration, in either mode. The repository
\* is as the failed run left it, except that the user may have gone back to
\* the default branch and may have discarded the pending changes; no branch
\* has been deleted.
Rerun ==
    /\ command = "release" /\ taping /\ ~firstRun.done
    /\ pc = "returned" /\ failure # "none"
    /\ firstRun' = [done |-> TRUE, steps |-> entered, failure |-> failure,
                    exit |-> exitCode]
    /\ dryRun' \in BOOLEAN
    /\ \E current \in {git.current, DefaultBranch}, dirty \in {git.dirty, {}} :
         git' = [git EXCEPT !.current = current, !.dirty = dirty]
    /\ gitAtStart' = git'
    /\ pc' = "checkChangelog"
    /\ entered' = <<>>
    /\ failure' = "none"
    /\ exitCode' = "none"
    /\ calls' = NoCalls
    /\ UNCHANGED <<command, argv, tape, taping, pubVars>>

-----------------------------------------------------------------------------
(* The artifact store (ZeusStore) *)

TargetIds == {"t1", "t2"}

ArtifactNames == {"pkg.whl", "readme.txt"}

Revision == "rev"

\* what the Zeus service may list for the revision
Listings == {<<>>, <<"readme.txt">>, <<"pkg.whl", "readme.txt">>}

\* Artifact.download_url
download_url(artifact) == IF artifact = "pkg.whl" THEN "url/1" ELSE "url/2"

Urls == {download_url(a) : a \in ArtifactNames}

\* A RegExp is modelled by the set of artifact names it matches.
test(regexp, name) == name \in regexp

NewPromise(kind, key) ==
    [kind |-> kind, key |-> key, state |-> "pending", value |-> <<>>]

\* downloadArtifact that never stores its promise in the cache
downloadArtifactUncached(cache, proms, artifact) ==
    [cache   |-> cache,
     proms   |-> Append(proms, NewPromise("download", download_url(artifact))),
     promise |-> Len(proms) + 1]

\* downloadArtifact that asks the client again when the cached download has
\* failed
downloadArtifactRetrying(cache, proms, artifact) ==
    LET cached == cache[download_url(artifact)] IN
    IF cached # 0 /\ proms[cached].state # "rejected"
        THEN [cache |-> cache, proms |-> proms, promise |-> cached]
        ELSE LET promise == Len(proms) + 1 IN
             [cache   |-> [cache EXCEPT ![download_url(artifact)] = promise],
              proms   |-> Append(proms, NewPromise("download", download_url(artifact))),
              promise |-> promise]

\* ZeusStore.downloadArtifact up to its return: the cache, the promises the
\* client has handed out, and the promise returned to the caller
downloadArtifact(cache, proms, artifact) ==
    LET cached == cache[download_url(artifact)] IN
    IF cached # 0
        THEN [cache |-> cache, proms |-> proms, promise |-> cached]
        ELSE LET promise == Len(proms) + 1 IN
             [cache   |-> [cache EXCEPT ![download_url(artifact)] = promise],
              proms   |-> Append(proms, NewPromise("download", download_url(artifact))),
              promise |-> promise]

\* listArtifactsForRevision that never stores its promise in the cache
listArtifactsForRevisionUncached(cache, proms, revision) ==
    [cache   |-> cache,
     proms   |-> Append(proms, NewPromise("list", revision)),
     promise |-> Len(proms) + 1]

\* ZeusStore.listArtifactsForRevision up to its return
listArtifactsForRevision(cache, proms, revision) ==
    LET cached == cache[revision] IN
    IF cached # 0
        THEN [cache |-> cache, proms |-> proms, promise |-> cached]
        ELSE LET promise == Len(proms) + 1 IN
             [cache   |-> [cache EXCEPT ![revision] = promise],
              proms   |-> Append(proms, NewPromise("list", revision)),
              promise |-> promise]

\* the filterOptions argument left out by the caller
undefined == [undefined |-> TRUE]

\* filterArtifactsForRevision that never looks at excludeNames
filterArtifactsForRevisionNoExclude(listing, filterOptions) ==
    IF filterOptions = undefined THEN listing
    ELSE IF "includeNames" \in DOMAIN filterOptions
        THEN SelectSeq(listing, LAMBDA a : test(filterOptions["includeNames"], a))
        ELSE listing

\* filterArtifactsForRevision that takes the names includeNames matches for
\* the artifacts to return
filterArtifactsForRevisionFromPattern(listing, filterOptions) ==
    IF filterOptions = undefined THEN listing
    ELSE IF "includeNames" \in DOMAIN filterOptions
        THEN IF filterOptions["includeNames"] = {} THEN <<>>
             ELSE <<CHOOSE a \in filterOptions["includeNames"] : TRUE>>
        ELSE listing

\* ZeusStore.filterArtifactsForRevision, after the listing has arrived
filterArtifactsForRevision(listing, filterOptions) ==
    IF filterOptions = undefined THEN listing
    ELSE
    LET included ==
            IF "includeNames" \in DOMAIN filterOptions
                THEN SelectSeq(listing,
                               LAMBDA a : test(filterOptions["includeNames"], a))
                ELSE listing
    IN  IF "excludeNames" \in DOMAIN filterOptions
            THEN SelectSeq(included,
                           LAMBDA a : ~test(filterOptions["excludeNames"], a))
            ELSE included

-----------------------------------------------------------------------------
(* Targets *)

\* pypi.ts DEFAULT_PYPI_REGEX = /(\.whl|\.gz|\.zip)$/
DEFAULT_PYPI_REGEX == {"pkg.whl"}

\* the filterOptions BaseTarget's constructor derives from includeFiles /
\* excludeFiles of the target's configuration
OwnFilterOptions ==
    {<<>>,
     "includeNames" :> {"readme.txt"},
     "excludeNames" :> {"pkg.whl"},
     ("includeNames" :> ArtifactNames) @@ ("excludeNames" :> {"readme.txt"})}

\* the filter BaseTarget.getArtifactsForRevision passes to the store:
\* { ...this.filterOptions, ...defaultFilterOptions }
mergedFilterOptions(filterOptions, defaultFilterOptions) ==
    defaultFilterOptions @@ filterOptions

\* the defaultFilterOptions each target's publish passes
defaultFilterOptions(kind) ==
    IF kind = "pypi" THEN "includeNames" :> DEFAULT_PYPI_REGEX ELSE <<>>

\* no listing has arrived yet
NotReceived == <<"none">>

NoSub == [st |-> "none", promise |-> 0, path |-> <<>>]

Range(seq) == {seq[i] : i \in DOMAIN seq}

\* artifacts.map(async artifact => ... store.downloadArtifact(artifact) ...):
\* every task runs up to its first await when map calls it
RECURSIVE downloadAll(_, _, _)
downloadAll(list, cache, proms) ==
    IF list = <<>>
        THEN [cache |-> cache, proms |-> proms, awaited |-> <<>>]
        ELSE LET one  == downloadArtifact(cache, proms, Head(list))
                 rest == downloadAll(Tail(list), one.cache, one.proms)
             IN  [cache   |-> rest.cache,
                  proms   |-> rest.proms,
                  awaited |-> <<one.promise>> \o rest.awaited]

IndexOf(list, a) == CHOOSE i \in DOMAIN list : list[i] = a

\* Promise.all over the upload tasks: rejected with the first task that
\* fails, fulfilled once every task is done
promiseAll(position, tasks, list) ==
    IF position # "uploading" THEN position
    ELSE IF \E a \in Range(list) : tasks[a].st = "failed" THEN "failed"
    ELSE IF \A a \in Range(list) : tasks[a].st = "done" THEN "done"
    ELSE "uploading"

\* getArtifactsForRevision -> filterArtifactsForRevision ->
\* listArtifactsForRevision, up to the await of the listing
AwaitListing(t, rel) ==
    LET r == listArtifactsForRevision(fileListCache, promises, Revision) IN
    /\ fileListCache' = r.cache
    /\ promises' = r.proms
    /\ listPromise' = [listPromise EXCEPT ![t] = r.promise]
    /\ filterArg' = [filterArg EXCEPT ![t] =
                       mergedFilterOptions(targets[t].filterOptions,
                                           defaultFilterOptions(targets[t].kind))]
    /\ release' = [release EXCEPT ![t] = rel]
    /\ tpc' = [tpc EXCEPT ![t] = "listing"]

\* publish() is called: GithubTarget calls getOrCreateRelease, which sends
\* getReleaseByTag; PypiTarget asks for its artifacts.
Publish(t) ==
    /\ command = "publish" /\ tpc[t] = "publish"
    /\ IF targets[t].kind = "github"
         THEN /\ tpc' = [tpc EXCEPT ![t] = "getReleaseByTag"]
              /\ calledAfter' = [calledAfter EXCEPT
                                   ![t] = {u \in TargetIds : release[u] # -1}]
              /\ Call({"getReleaseByTag"})
              /\ UNCHANGED <<release, listPromise, filterArg, fileListCache, promises>>
         ELSE /\ AwaitListing(t, release[t])
              /\ UNCHANGED <<calledAfter, calls>>
    /\ UNCHANGED <<relVars, env, queryVars, creation, targets, received, artifacts, subs, downloadCache,
                   ghRelease>>

\* the release tag: tagPrefix and version
Tag == "1.0.0"

\* getOrCreateRelease has not been called: nothing answered, nothing sent
NoCreation == [response |-> "none", changelog |-> "unasked", name |-> "none"]

\* the name parameter without the tag as its default
releaseNameNoDefault(changelog) ==
    IF changelog = "changeset" THEN "changeset.name" ELSE "undefined"

\* the name parameter of createRelease, { name: tag, ...changes }: the
\* changeset's name when the changelog file was found ("changeset") and
\* findChangeset found the tag's section in it, the tag when there is no
\* file ("404") or no section ("noChangeset")
releaseName(changelog) ==
    IF changelog = "changeset" THEN "changeset.name" ELSE Tag

getOrCreateReleaseAlwaysCreates(response) ==
    IF response = "error" THEN "throw" ELSE "create"

\* getOrCreateRelease after getReleaseByTag has answered with `response`
\* (the release, "404" or another error): what the function does next
getOrCreateRelease(response) ==
    IF response = "error" THEN "throw"
    ELSE IF response = "404" THEN "create"
    ELSE "return"

\* getOrCreateRelease: getReleaseByTag answers
GetReleaseByTagResponse(t) ==
    /\ command = "publish" /\ tpc[t] = "getReleaseByTag"
    /\ \E response \in {"error", IF ghRelease # 0 THEN "found" ELSE "404"} :
         /\ creation' = [creation EXCEPT ![t].response = response]
         /\ IF getOrCreateRelease(response) = "throw"
              THEN /\ tpc' = [tpc EXCEPT ![t] = "failed"]
                   /\ UNCHANGED <<release, listPromise, filterArg, fileListCache, promises, calls>>
            ELSE IF getOrCreateRelease(response) = "return"
              THEN /\ AwaitListing(t, ghRelease)
                   /\ UNCHANGED calls
              ELSE /\ tpc' = [tpc EXCEPT ![t] = "getFile"]
                   /\ Call({"getContent"})
                   /\ UNCHANGED <<release, listPromise, filterArg, fileListCache, promises>>
    /\ UNCHANGED <<relVars, env, queryVars, targets, calledAfter, received, artifacts, subs,
                   downloadCache, ghRelease>>

\* getOrCreateRelease: getFile answers (a changelog with or without a section
\* for the tag, a 404, or an error); the release is created unless this is a
\* dry run
GetFileResponse(t) ==
    /\ command = "publish" /\ tpc[t] = "getFile"
    /\ \E r \in {"changeset", "noChangeset", "404", "error"} :
         /\ creation' = [creation EXCEPT
                           ![t].changelog = r,
                           ![t].name = IF r # "error" /\ shouldPerform
                                         THEN releaseName(r)
                                         ELSE "none"]
         /\ IF r = "error"
              THEN /\ tpc' = [tpc EXCEPT ![t] = "failed"]
                   /\ UNCHANGED <<release, listPromise, filterArg, fileListCache, promises, calls>>
            ELSE IF shouldPerform
              THEN /\ tpc' = [tpc EXCEPT ![t] = "createRelease"]
                   /\ Call({"createRelease"})
                   /\ UNCHANGED <<release, listPromise, filterArg, fileListCache, promises>>
              ELSE /\ AwaitListing(t, 0)
                   /\ UNCHANGED calls
    /\ UNCHANGED <<relVars, env, queryVars, targets, calledAfter, received, artifacts, subs,
                   downloadCache, ghRelease>>

\* getOrCreateRelease: createRelease answers; GitHub refuses a second
\* release for a tag that has one
CreateReleaseResponse(t) ==
    /\ command = "publish" /\ tpc[t] = "createRelease"
    /\ \E error \in BOOLEAN :
         IF error \/ ghRelease # 0
           THEN /\ tpc' = [tpc EXCEPT ![t] = "failed"]
                /\ UNCHANGED <<release, listPromise, filterArg, fileListCache, promises,
                               ghRelease>>
           ELSE /\ ghRelease' = 1
                /\ AwaitListing(t, 1)
    /\ UNCHANGED <<relVars, env, queryVars, creation, targets, calledAfter, received, artifacts, subs,
                   downloadCache, calls>>

\* the listing promise is settled: filter, then start one upload task per
\* artifact (PypiTarget reports an error when nothing is left)
ListingSettled(t) ==
    /\ command = "publish" /\ tpc[t] = "listing"
    /\ promises[listPromise[t]].state # "pending"
    /\ IF promises[listPromise[t]].state = "rejected"
         THEN /\ tpc' = [tpc EXCEPT ![t] = "failed"]
              /\ UNCHANGED <<received, artifacts, subs, downloadCache, promises>>
         ELSE LET listing  == promises[listPromise[t]].value
                  filtered == filterArtifactsForRevision(listing, filterArg[t])
                  r        == downloadAll(filtered, downloadCache, promises)
              IN  /\ received' = [received EXCEPT ![t] = listing]
                  /\ artifacts' = [artifacts EXCEPT ![t] = filtered]
                  /\ IF targets[t].kind = "pypi" /\ filtered = <<>>
                       THEN /\ tpc' = [tpc EXCEPT
                                         ![t] = IF reportError THEN "failed" ELSE "done"]
                            /\ UNCHANGED <<subs, downloadCache, promises>>
                       ELSE /\ downloadCache' = r.cache
                            /\ promises' = r.proms
                            /\ subs' = [subs EXCEPT ![t] =
                                 [a \in ArtifactNames |->
                                    IF a \in Range(filtered)
                                      THEN [st      |-> "downloading",
                                            promise |-> r.awaited[IndexOf(filtered, a)],
                                            path    |-> <<>>]
                                      ELSE NoSub]]
                            /\ tpc' = [tpc EXCEPT
                                         ![t] = IF filtered = <<>> THEN "done"
                                                ELSE "uploading"]
    /\ UNCHANGED <<relVars, env, queryVars, creation, targets, release, calledAfter, listPromise,
                   filterArg, fileListCache, ghRelease, calls>>

\* one upload task: the download promise is settled; the asset is uploaded
\* (GithubTarget: unless this is a dry run)
Downloaded(t, a) ==
    /\ command = "publish" /\ subs[t][a].st = "downloading"
    /\ promises[subs[t][a].promise].state # "pending"
    /\ LET p      == promises[subs[t][a].promise]
           upload == targets[t].kind = "pypi" \/ shouldPerform
           task   == IF p.state = "rejected"
                       THEN [subs[t][a] EXCEPT !.st = "failed"]
                       ELSE [subs[t][a] EXCEPT
                               !.st = IF upload THEN "uploading" ELSE "done",
                               !.path = p.value]
           tasks  == [subs[t] EXCEPT ![a] = task]
       IN  /\ subs' = [subs EXCEPT ![t] = tasks]
           /\ tpc' = [tpc EXCEPT ![t] = promiseAll(tpc[t], tasks, artifacts[t])]
           /\ Call(IF p.state = "rejected" \/ ~upload THEN {}
                   ELSE IF targets[t].kind = "pypi" THEN {"twineUpload"}
                   ELSE {"uploadAsset"})
    /\ UNCHANGED <<relVars, env, queryVars, creation, targets, release, calledAfter, listPromise, filterArg,
                   received,
                   artifacts, downloadCache, fileListCache, promises, ghRelease>>

\* one upload task: the upload answers
UploadResponse(t, a) ==
    /\ command = "publish" /\ subs[t][a].st = "uploading"
    /\ \E error \in BOOLEAN :
         LET tasks == [subs[t] EXCEPT ![a].st = IF error THEN "failed" ELSE "done"] IN
         /\ subs' = [subs EXCEPT ![t] = tasks]
         /\ tpc' = [tpc EXCEPT ![t] = promiseAll(tpc[t], tasks, artifacts[t])]
    /\ UNCHANGED <<relVars, env, queryVars, creation, targets, release, calledAfter, listPromise, filterArg,
                   received,
                   artifacts, downloadCache, fileListCache, promises, ghRelease,
                   calls>>

\* the Zeus client settles a promise it has handed out
Settle(i) ==
    /\ command = "publish" /\ promises[i].state = "pending"
    /\ \/ promises' = [promises EXCEPT ![i].state = "rejected"]
       \/ /\ promises[i].kind = "list"
          /\ \E listing \in Listings :
               promises' = [promises EXCEPT ![i].state = "resolved",
                                            ![i].value = listing]
       \/ /\ promises[i].kind = "download"
          /\ promises' = [promises EXCEPT ![i].state = "resolved",
                                          ![i].value = <<promises[i].key, i>>]
    /\ UNCHANGED <<relVars, env, queryVars, creation, targets, tpc, release, calledAfter, listPromise, filterArg,
                   received, artifacts, subs, downloadCache, fileListCache,
                   ghRelease, calls>>

PublishNext ==
    \/ \E t \in TargetIds : Publish(t)
    \/ \E t \in TargetIds : GetReleaseByTagResponse(t)
    \/ \E t \in TargetIds : GetFileResponse(t)
    \/ \E t \in TargetIds : CreateReleaseResponse(t)
    \/ \E t \in TargetIds : ListingSettled(t)
    \/ \E t \in TargetIds, a \in ArtifactNames : Downloaded(t, a)
    \/ \E t \in TargetIds, a \in ArtifactNames : UploadResponse(t, a)
    \/ \E i \in DOMAIN promises : Settle(i)

\* RevisionInfo.status (Status of @zeus-ci/sdk), or no such field
Statuses == {"UNKNOWN", "QUEUED", "IN_PROGRESS", "FINISHED", "undefined"}

\* RevisionInfo.result (Result of @zeus-ci/sdk), or no such field
Results == {"UNKNOWN", "PASSED", "FAILED", "ERRORED", "ABORTED", "undefined"}

NoRevision == [status |-> "none", result |-> "none"]

Predicates ==
    {"isRevisionBuiltSuccessfully", "isRevisionFailed", "isRevisionPending"}

NoLookup == [name |-> "none", result |-> "none"]

\* nothing has been asked of the store or of the registry
NoQueries ==
    /\ revisionInfo = NoRevision
    /\ answers = [p \in Predicates |-> "unasked"]
    /\ lookedUp = NoLookup

Envs ==
    [GITHUB_API_TOKEN : BOOLEAN, TWINE_USERNAME : BOOLEAN,
     TWINE_PASSWORD : BOOLEAN]

\* the release command constructs no target and none reads process.env
NoEnv ==
    [GITHUB_API_TOKEN |-> FALSE, TWINE_USERNAME |-> FALSE,
     TWINE_PASSWORD |-> FALSE]

\* getPypiConfig that returns whatever the environment holds
getPypiConfigNoTest(e) == "ok"

\* PypiTarget.getPypiConfig: the error thrown ("ok" if none)
getPypiConfig(e) ==
    IF ~e.TWINE_USERNAME \/ ~e.TWINE_PASSWORD
        THEN "MissingCredentials"
        ELSE "ok"

\* the constructor of a target of the given kind: the error thrown ("ok" if
\* none, and the target object exists)
constructor(kind, e) ==
    IF kind = "pypi"
        THEN getPypiConfig(e)
        ELSE getGithubClient(IF e.GITHUB_API_TOKEN THEN "set" ELSE "unset")

CleanRepository ==
    [isRepo |-> TRUE, current |-> DefaultBranch, dirty |-> {}, ahead |-> 0,
     branches |-> {DefaultBranch}]

\* no target exists while the release command runs
NoTargets ==
    /\ targets = [t \in TargetIds |-> [kind |-> "none", filterOptions |-> <<>>]]
    /\ tpc = [t \in TargetIds |-> "unused"]
    /\ env = NoEnv
    /\ NoQueries
    /\ creation = [t \in TargetIds |-> NoCreation]
    /\ release = [t \in TargetIds |-> -1]
    /\ calledAfter = [t \in TargetIds |-> {}]
    /\ listPromise = [t \in TargetIds |-> 0]
    /\ filterArg = [t \in TargetIds |-> <<>>]
    /\ received = [t \in TargetIds |-> NotReceived]
    /\ artifacts = [t \in TargetIds |-> <<>>]
    /\ subs = [t \in TargetIds |-> [a \in ArtifactNames |-> NoSub]]
    /\ downloadCache = [u \in Urls |-> 0]
    /\ fileListCache = [r \in {Revision} |-> 0]
    /\ promises = <<>>
    /\ ghRelease = 0

\* `craft publish`: the configured targets are constructed around one store
\* and the publish() calls of those that were constructed are started
\* together; a target whose constructor threw does not exist ("noTarget")
InitPublish ==
    /\ command = "publish"
    /\ dryRun \in BOOLEAN
    /\ argv = [noGitChecks |-> FALSE, noChangelog |-> FALSE, noPush |-> FALSE,
               publish |-> FALSE]
    /\ pc = "none"
    /\ git = CleanRepository
    /\ gitAtStart = git
    /\ entered = <<>>
    /\ failure = "none"
    /\ calls = NoCalls
    /\ exitCode = "none"
    /\ firstRun = NoRun
    /\ targets \in {ts \in [TargetIds -> [kind : {"github", "pypi"},
                                          filterOptions : OwnFilterOptions]] :
                      /\ ts["t1"].kind = "github"
                      /\ ts["t1"].filterOptions = <<>>}
    /\ env \in Envs
    /\ NoQueries
    /\ creation = [t \in TargetIds |-> NoCreation]
    /\ tpc = [t \in TargetIds |->
                IF constructor(targets[t].kind, env) = "ok"
                    THEN "publish"
                    ELSE "noTarget"]
    /\ release = [t \in TargetIds |-> -1]
    /\ calledAfter = [t \in TargetIds |-> {}]
    /\ listPromise = [t \in TargetIds |-> 0]
    /\ filterArg = [t \in TargetIds |-> <<>>]
    /\ received = [t \in TargetIds |-> NotReceived]
    /\ artifacts = [t \in TargetIds |-> <<>>]
    /\ subs = [t \in TargetIds |-> [a \in ArtifactNames |-> NoSub]]
    /\ downloadCache = [u \in Urls |-> 0]
    /\ fileListCache = [r \in {Revision} |-> 0]
    /\ promises = <<>>
    /\ ghRelease \in {0, 1}

-----------------------------------------------------------------------------

InitRelease ==
    /\ command = "release"
    /\ dryRun \in BOOLEAN
    /\ argv \in [noGitChecks : BOOLEAN, noChangelog : BOOLEAN,
                 noPush : BOOLEAN, publish : BOOLEAN]
    /\ pc = "checkChangelog"
    /\ git \in GitStates
    /\ gitAtStart = git
    /\ entered = <<>>
    /\ failure = "none"
    /\ calls = NoCalls
    /\ exitCode = "none"
    /\ firstRun = NoRun
    /\ NoTargets

ReleaseNext ==
    \/ CheckChangelog
    \/ GetGithubClient
    \/ GetDefaultBranch
    \/ CheckGitState
    \/ CreateReleaseBranch
    \/ RunPreReleaseCommand
    \/ CommitNewVersion
    \/ PushReleaseBranch
    \/ Finish
    \/ ExecPublish

Init ==
    /\ InitRelease \/ InitPublish
    /\ taping = FALSE
    /\ tape = <<>>

Next == ReleaseNext \/ PublishNext

vars == <<relVars, calls, pubVars>>

Spec == Init /\ [][Next]_vars

InitReplay ==
    /\ InitRelease
    /\ taping = TRUE
    /\ tape = <<>>

NextReplay == ReleaseNext \/ SecondExecution

SpecReplay == InitReplay /\ [][NextReplay]_vars

NextRerun == ReleaseNext \/ Rerun

SpecRerun == InitReplay /\ [][NextRerun]_vars

-----------------------------------------------------------------------------
(* The store's filter, called by any caller with any arguments *)

\* the listings of at most MaxListing artifacts
StoreListings ==
    UNION {[1..n -> ArtifactNames] : n \in 0..MaxListing}

\* a regular expression matches any set of the names
RegExps == SUBSET ArtifactNames

\* the filterOptions a caller may pass: none, or an object with or without
\* includeNames and excludeNames
FilterOptions ==
    {undefined}
        \cup {i @@ x : i \in {<<>>} \cup {"includeNames" :> r : r \in RegExps},
                       x \in {<<>>} \cup {"excludeNames" :> r : r \in RegExps}}

\* a caller is about to call filterArtifactsForRevision(revision,
\* filterOptions); the revision's listing is the one in `received`
InitFilter ==
    /\ command = "filter"
    /\ dryRun = FALSE
    /\ argv = [noGitChecks |-> FALSE, noChangelog |-> FALSE, noPush |-> FALSE,
               publish |-> FALSE]
    /\ pc = "none"
    /\ git = CleanRepository
    /\ gitAtStart = git
    /\ entered = <<>>
    /\ failure = "none"
    /\ calls = NoCalls
    /\ exitCode = "none"
    /\ firstRun = NoRun
    /\ taping = FALSE
    /\ tape = <<>>
    /\ targets = [t \in TargetIds |-> [kind |-> "none", filterOptions |-> <<>>]]
    /\ tpc = [t \in TargetIds |-> IF t = "t1" THEN "filter" ELSE "unused"]
    /\ env = NoEnv
    /\ NoQueries
    /\ creation = [t \in TargetIds |-> NoCreation]
    /\ release = [t \in TargetIds |-> -1]
    /\ calledAfter = [t \in TargetIds |-> {}]
    /\ listPromise = [t \in TargetIds |-> 0]
    /\ \E f \in FilterOptions :
         filterArg = [t \in TargetIds |-> IF t = "t1" THEN f ELSE <<>>]
    /\ \E l \in StoreListings :
         received = [t \in TargetIds |-> IF t = "t1" THEN l ELSE NotReceived]
    /\ artifacts = [t \in TargetIds |-> <<>>]
    /\ subs = [t \in TargetIds |-> [a \in ArtifactNames |-> NoSub]]
    /\ downloadCache = [u \in Urls |-> 0]
    /\ fileListCache = [r \in {Revision} |-> 0]
    /\ promises = <<>>
    /\ ghRelease = 0

\* the call returns the filtered list
FilterArtifactsForRevision(t) ==
    /\ command = "filter" /\ tpc[t] = "filter"
    /\ artifacts' = [artifacts EXCEPT
                       ![t] = filterArtifactsForRevision(received[t], filterArg[t])]
    /\ tpc' = [tpc EXCEPT ![t] = "filtered"]
    /\ UNCHANGED <<relVars, calls, env, queryVars, creation, targets, release, calledAfter, listPromise,
                   filterArg, received, subs, downloadCache, fileListCache,
                   promises, ghRelease>>

FilterNext == \E t \in TargetIds : FilterArtifactsForRevision(t)

SpecFilter == InitFilter /\ [][FilterNext]_vars

-----------------------------------------------------------------------------
(* The store's revision predicates and the target registry, as a caller
   uses them *)

isRevisionBuiltSuccessfully(info) ==
    info.status = "FINISHED" /\ info.result = "PASSED"

\* isRevisionFailed without the test of the status
isRevisionFailedAnyStatus(info) ==
    info.result # "PASSED"

isRevisionFailed(info) ==
    info.status = "FINISHED" /\ info.result # "PASSED"

isRevisionPending(info) ==
    info.status # "FINISHED"

\* targets/index.ts TARGET_MAP: the object's own properties
TARGET_MAP ==
    [brew |-> "BrewTarget", github |-> "GithubTarget", npm |-> "NpmTarget",
     nuget |-> "NugetTarget", pypi |-> "PypiTarget"]

\* what TARGET_MAP, an object literal, inherits from Object.prototype
ObjectPrototype ==
    ("constructor" :> "Object")
        @@ ("toString" :> "Object.prototype.toString")
        @@ ("hasOwnProperty" :> "Object.prototype.hasOwnProperty")
        @@ ("__proto__" :> "Object.prototype")

\* the names a caller may ask the registry for
TargetNames ==
    DOMAIN TARGET_MAP \cup DOMAIN ObjectPrototype
        \cup {"", "gcs", "GitHub", "pypi "}

\* getTargetByName: TARGET_MAP[targetName], a property read that falls back
\* to the prototype for a name that is no own property
getTargetByName(targetName) ==
    IF targetName \in DOMAIN TARGET_MAP THEN TARGET_MAP[targetName]
    ELSE IF targetName \in DOMAIN ObjectPrototype THEN ObjectPrototype[targetName]
    ELSE "undefined"

\* store.getRevision answers
GetRevision ==
    /\ command = "query" /\ revisionInfo = NoRevision
    /\ revisionInfo' \in [status : Statuses, result : Results]
    /\ UNCHANGED <<relVars, calls, env, creation, answers, lookedUp, targets, tpc, release,
                   calledAfter, listPromise, filterArg, received, artifacts, subs,
                   downloadCache, fileListCache, promises, ghRelease>>

\* one of the three predicates is applied to the revision info
IsRevision(p) ==
    /\ command = "query" /\ revisionInfo # NoRevision /\ answers[p] = "unasked"
    /\ LET answer ==
             CASE p = "isRevisionBuiltSuccessfully" ->
                    isRevisionBuiltSuccessfully(revisionInfo)
               [] p = "isRevisionFailed"  -> isRevisionFailed(revisionInfo)
               [] p = "isRevisionPending" -> isRevisionPending(revisionInfo)
       IN  answers' = [answers EXCEPT ![p] = IF answer THEN "true" ELSE "false"]
    /\ UNCHANGED <<relVars, calls, env, creation, revisionInfo, lookedUp, targets, tpc,
                   release, calledAfter, listPromise, filterArg, received,
                   artifacts, subs, downloadCache, fileListCache, promises,
                   ghRelease>>

\* getTargetByName is called with some name
GetTargetByName ==
    /\ command = "query" /\ lookedUp = NoLookup
    /\ \E targetName \in TargetNames :
         lookedUp' = [name |-> targetName, result |-> getTargetByName(targetName)]
    /\ UNCHANGED <<relVars, calls, env, creation, revisionInfo, answers, targets, tpc,
                   release, calledAfter, listPromise, filterArg, received,
                   artifacts, subs, downloadCache, fileListCache, promises,
                   ghRelease>>

InitQueries ==
    /\ command = "query"
    /\ dryRun = FALSE
    /\ argv = [noGitChecks |-> FALSE, noChangelog |-> FALSE, noPush |-> FALSE,
               publish |-> FALSE]
    /\ pc = "none"
    /\ git = CleanRepository
    /\ gitAtStart = git
    /\ entered = <<>>
    /\ failure = "none"
    /\ calls = NoCalls
    /\ exitCode = "none"
    /\ firstRun = NoRun
    /\ taping = FALSE
    /\ tape = <<>>
    /\ NoTargets

QueriesNext ==
    \/ GetRevision
    \/ \E p \in Predicates : IsRevision(p)
    \/ GetTargetByName

SpecQueries == InitQueries /\ [][QueriesNext]_vars

-----------------------------------------------------------------------------
(* Properties *)

Transports(kind, key) ==
    {i \in DOMAIN promises : promises[i].kind = kind /\ promises[i].key = key}

\* C1: however the targets' downloadArtifact calls for an artifact
\* interleave, the Zeus client is asked at most once per download_url, every
\* caller awaits that one promise and every caller that got a path got the
\* same one.
C1_DownloadedOnce ==
    /\ \A url \in Urls : Cardinality(Transports("download", url)) <= 1
    /\ \A t, u \in TargetIds : \A a \in ArtifactNames :
         /\ subs[t][a].promise # 0 /\ subs[u][a].promise # 0
              => subs[t][a].promise = subs[u][a].promise
         /\ subs[t][a].path # <<>> /\ subs[u][a].path # <<>>
              => subs[t][a].path = subs[u][a].path

C1_Witness ==
    \E a \in ArtifactNames :
        /\ subs["t1"][a].path # <<>>
        /\ subs["t2"][a].path = subs["t1"][a].path

\* C2: however the callers of listArtifactsForRevision interleave, the Zeus
\* service is asked at most once for the revision's listing, the callers
\* await the one request and all receive the same listing.
C2_ListedOnce ==
    /\ Cardinality(Transports("list", Revision)) <= 1
    /\ \A t, u \in TargetIds :
         /\ listPromise[t] # 0 /\ listPromise[u] # 0
              => listPromise[t] = listPromise[u]
         /\ received[t] # NotReceived /\ received[u] # NotReceived
              => received[t] = received[u]

C2_Witness ==
    /\ received["t1"] # NotReceived
    /\ received["t2"] = received["t1"]
    /\ received["t1"] # <<>>

\* C3: in a dry run neither the release handler nor a GitHub target ever
\* calls checkoutLocalBranch, commit, push, createRelease or uploadAsset.
C3_DryRunNoMutation ==
    dryRun => \A m \in {"checkoutLocalBranch", "commit", "push",
                        "createRelease", "uploadAsset"} : calls[m] = 0

C3_Witness ==
    /\ dryRun
    /\ \E t \in TargetIds :
         /\ targets[t].kind = "github"
         /\ tpc[t] = "done"
         /\ release[t] = 0
         /\ artifacts[t] # <<>>

Terminated == pc \in {"returned", "exited"}

\* the live one of the two executions got an error from a state-changing
\* git call
MutationFailed ==
    \E k \in {"checkoutLocalBranch", "commit", "push"} \cap DOMAIN tape :
        tape[k] = "fail"

PipelineSteps ==
    <<"checkChangelog", "checkGitState", "createReleaseBranch",
      "runPreReleaseCommand", "commitNewVersion", "pushReleaseBranch">>

\* C5: the steps of a run of the release handler are entered in the order
\* changelog check, git-state validation, branch creation, pre-release hook,
\* commit, push, then Done or Publishing, each at most once and none again
\* after a later one.
C5_StepsInOrder ==
    LET run == SelectSeq(entered,
                   LAMBDA x : x \in Range(PipelineSteps) \cup {"done", "publishing"})
    IN  \A i \in DOMAIN run :
            IF i <= Len(PipelineSteps)
                THEN run[i] = PipelineSteps[i]
                ELSE i = Len(PipelineSteps) + 1 /\ run[i] \in {"done", "publishing"}

C5_Witness ==
    /\ Len(entered) = 9
    /\ entered[9] = "publishing"
    /\ pc = "exited"

FatalErrors ==
    {"ChangelogDoesNotExist", "NoChangelogEntry", "NotAGitRepository",
     "NotOnDefaultBranch", "DirtyRepository", "UnpushedChanges",
     "BranchAlreadyExists", "ProcessFailed", "NothingToCommit"}

\* the collaborator calls that only steps after `step` make
MethodsAfter(step) ==
    CASE step = "createReleaseBranch" ->
            {"spawnProcess", "commit", "push", "sleepAsync", "publishMain"}
      [] step = "runPreReleaseCommand" ->
            {"commit", "push", "sleepAsync", "publishMain"}
      [] step = "commitNewVersion" ->
            {"push", "sleepAsync", "publishMain"}
      [] OTHER ->
            {"revparse", "checkoutLocalBranch", "spawnProcess", "commit", "push",
             "sleepAsync", "publishMain"}

\* C6: once a step of the release handler has failed fatally the run is
\* over: the failing step is the last one entered and no call of a later
\* step (checkoutLocalBranch, the hook, commit, push, publish) is ever made.
C6_FatalFailureStops ==
    failure \in FatalErrors
        => /\ pc = "returned"
           /\ exitCode = "none"
           /\ \A m \in MethodsAfter(entered[Len(entered)]) : calls[m] = 0

C6_Witness ==
    /\ failure = "ProcessFailed"
    /\ calls["checkoutLocalBranch"] = 1
    /\ pc = "returned"

GitStateErrors ==
    {"NotAGitRepository", "NotOnDefaultBranch", "DirtyRepository",
     "UnpushedChanges"}

BadGitState(g) ==
    \/ ~g.isRepo
    \/ g.current # DefaultBranch
    \/ \E l \in StatusLists : l \in g.dirty
    \/ g.ahead > 0

\* C7: with git checks enabled and a work tree that is no repository, is
\* not on the default branch, has a non-empty status list or is ahead, the
\* run fails at checkGitState; revparse and checkoutLocalBranch are never
\* called.
C7_BadGitStateFailsBeforeBranch ==
    command = "release" /\ ~argv.noGitChecks /\ BadGitState(gitAtStart)
        => /\ calls["revparse"] = 0
           /\ calls["checkoutLocalBranch"] = 0
           /\ "checkGitState" \in Range(entered)
                => /\ failure \in GitStateErrors
                   /\ entered[Len(entered)] = "checkGitState"
                   /\ pc = "returned"

C7_Witness ==
    /\ ~argv.noGitChecks
    /\ gitAtStart.isRepo /\ gitAtStart.current = DefaultBranch
    /\ gitAtStart.dirty = {"staged"} /\ gitAtStart.ahead = 0
    /\ failure = "DirtyRepository"

\* C8: when getOrCreateRelease is called for a tag after an earlier call for
\* that tag has returned its release, the later call returns the same
\* release and createRelease has been issued at most once in all.
C8_GetOrCreateIdempotent ==
    \A t, u \in TargetIds :
        u \in calledAfter[t]
            => /\ calls["createRelease"] <= 1
               /\ release[t] # -1 => release[t] = release[u]

C8_Witness ==
    \E t, u \in TargetIds :
        /\ u \in calledAfter[t]
        /\ calls["createRelease"] = 1
        /\ release[u] = 1
        /\ release[t] = 1

\* C9 as claimed: when two getOrCreateRelease calls for one tag run
\* concurrently and the tag has no release, createRelease is issued at most
\* once.
C9_CreateIssuedAtMostOnce ==
    (\A t \in TargetIds : targets[t].kind = "github")
        => calls["createRelease"] <= 1

FilterKeys == {"includeNames", "excludeNames"}

\* C10 as claimed: the filter getArtifactsForRevision passes to the store
\* takes a key both sides define from the target's own filterOptions, and a
\* key one side defines from that side.
C10_OwnFilterWins ==
    \A t \in TargetIds :
        listPromise[t] # 0 =>
            LET own  == targets[t].filterOptions
                dflt == defaultFilterOptions(targets[t].kind)
            IN  /\ DOMAIN filterArg[t] = DOMAIN own \cup DOMAIN dflt
                /\ \A k \in DOMAIN filterArg[t] :
                     filterArg[t][k] = IF k \in DOMAIN own THEN own[k] ELSE dflt[k]

\* the positions of the artifacts of `listing` that filterOptions keeps
Kept(listing, filterOptions) ==
    {j \in DOMAIN listing :
        /\ "includeNames" \in DOMAIN filterOptions
              => listing[j] \in filterOptions["includeNames"]
        /\ "excludeNames" \in DOMAIN filterOptions
              => listing[j] \notin filterOptions["excludeNames"]}

\* C11: filterArtifactsForRevision returns exactly the artifacts of the
\* listing whose name matches includeNames (all of them without includeNames)
\* and does not match excludeNames (none is dropped without excludeNames), in
\* the listing's order; without filterOptions it returns the listing.
C11_FilterReturnsExactlyTheMatching ==
    \A t \in TargetIds :
        command = "filter" /\ tpc[t] = "filtered" =>
            IF filterArg[t] = undefined
                THEN artifacts[t] = received[t]
                ELSE LET kept == Kept(received[t], filterArg[t]) IN
                     /\ Len(artifacts[t]) = Cardinality(kept)
                     /\ \A i \in DOMAIN artifacts[t] :
                          \E j \in kept :
                            /\ Cardinality({k \in kept : k <= j}) = i
                            /\ artifacts[t][i] = received[t][j]

C11_Witness ==
    /\ command = "filter" /\ tpc["t1"] = "filtered"
    /\ received["t1"] = <<"readme.txt", "pkg.whl">>
    /\ filterArg["t1"] = ("includeNames" :> ArtifactNames)
                            @@ ("excludeNames" :> {"readme.txt"})
    /\ artifacts["t1"] = <<"pkg.whl">>

\* C12: whatever filter a target passes to the store (its own filterOptions
\* merged with its defaults), every artifact filterArtifactsForRevision
\* returns is one of the revision's listing: filtering adds no artifact.
C12_FilterAddsNothing ==
    \A t \in TargetIds :
        command = "publish" /\ received[t] # NotReceived
            => /\ Range(artifacts[t]) \subseteq Range(received[t])
               /\ Len(artifacts[t]) <= Len(received[t])

C12_Witness ==
    \E t \in TargetIds :
        /\ targets[t].kind = "pypi"
        /\ DOMAIN targets[t].filterOptions = {"includeNames", "excludeNames"}
        /\ received[t] = <<"pkg.whl", "readme.txt">>
        /\ artifacts[t] = <<"pkg.whl">>

\* target t has resolved its artifact subset and it is empty
EmptySubset(t) == received[t] # NotReceived /\ artifacts[t] = <<>>

\* C13 as claimed: a target whose resolved artifact subset is empty ends its
\* publish as skipped and without failure, having started no upload and
\* having issued no createRelease (so no more createRelease calls exist than
\* GitHub targets not known to have an empty subset).
C13_EmptySubsetShortCircuits ==
    command = "publish" =>
        /\ \A t \in TargetIds :
             EmptySubset(t)
                => /\ tpc[t] = "done"
                   /\ \A a \in ArtifactNames : subs[t][a] = NoSub
        /\ calls["createRelease"]
             <= Cardinality({t \in TargetIds :
                               targets[t].kind = "github" /\ ~EmptySubset(t)})

\* C14 as claimed: the promise of a target's publish is settled, fulfilled or
\* rejected, only when none of the uploads it started is still running.
C14_SettledAfterEveryUpload ==
    \A t \in TargetIds :
        command = "publish" /\ tpc[t] \in {"done", "failed"}
            => \A a \in ArtifactNames : subs[t][a].st # "uploading"

\* C15: when createReleaseBranch runs and revparse finds the release branch,
\* the step fails with the branch-exists error and checkoutLocalBranch is not
\* called, in a live run and in a dry run alike; when revparse fails with
\* another error than 'unknown revision' the step fails with that error,
\* checkoutLocalBranch is not called and the branches are as they were.
C15_ExistingBranchOrRevparseErrorFails ==
    command = "release" /\ "createReleaseBranch" \in Range(entered) =>
        LET branchHead == revparse(gitAtStart, tape["revparse"]) IN
        /\ branchHead = "sha"
              => /\ failure = "BranchAlreadyExists"
                 /\ calls["checkoutLocalBranch"] = 0
                 /\ pc = "returned"
        /\ branchHead = "error"
              => /\ failure = "RevparseFailed"
                 /\ calls["checkoutLocalBranch"] = 0
                 /\ git.branches = gitAtStart.branches
                 /\ pc = "returned"

\* the live and the dry execution both found the branch and failed
C15_Witness ==
    /\ firstRun.done /\ firstRun.failure = "BranchAlreadyExists"
    /\ failure = "BranchAlreadyExists"
    /\ calls["revparse"] = 1

\* the pre-release command has run and has left no change in the work tree
HookChangedNothing ==
    "hookChanges" \in DOMAIN tape /\ tape["hookChanges"] = {}

\* C16 as claimed: when the pre-release command has changed no file, the
\* commit step fails with NothingToCommit; git.commit and git.push are
\* never called.
C16_NoHookChangesNothingToCommit ==
    command = "release" /\ HookChangedNothing
    /\ "commitNewVersion" \in Range(entered)
        => /\ failure = "NothingToCommit"
           /\ calls["commit"] = 0
           /\ calls["push"] = 0
           /\ pc = "returned"

\* the run before this one was live, created the release branch and failed
\* in the pre-release command; the branch is still there
RerunAfterFailedHook ==
    /\ command = "release" /\ firstRun.done
    /\ firstRun.failure = "ProcessFailed"
    /\ ReleaseBranch \in gitAtStart.branches

\* the user has put the work tree back on a clean default branch
WorkTreeRestored ==
    gitAtStart.current = DefaultBranch /\ gitAtStart.dirty = {}

\* C17 as claimed: the run after a live run that created the branch and
\* failed in the hook fails at createReleaseBranch with the branch-exists
\* error, and calls neither the hook nor commit nor push.
C17_RerunFailsAtBranchCreated ==
    RerunAfterFailedHook /\ pc = "returned"
        => /\ failure = "BranchAlreadyExists"
           /\ entered[Len(entered)] = "createReleaseBranch"
           /\ \A m \in {"spawnProcess", "commit", "push"} : calls[m] = 0

\* C17 as amended: the run after a live run that created the branch and
\* failed in the hook never calls checkoutLocalBranch, the hook, commit or
\* push; it fails at createReleaseBranch with the branch-exists error when
\* the git checks are skipped or the work tree is back on a clean default
\* branch, and at checkGitState otherwise.
C17_RerunFailsByBranchCreated ==
    RerunAfterFailedHook
        => /\ \A m \in {"checkoutLocalBranch", "spawnProcess", "commit", "push"} :
                calls[m] = 0
           /\ pc = "returned"
                => IF argv.noGitChecks \/ WorkTreeRestored
                     THEN /\ failure = "BranchAlreadyExists"
                          /\ entered[Len(entered)] = "createReleaseBranch"
                     ELSE /\ failure \in {"NotOnDefaultBranch", "DirtyRepository"}
                          /\ entered[Len(entered)] = "checkGitState"

C17_Witness ==
    /\ RerunAfterFailedHook /\ pc = "returned"
    /\ ~argv.noGitChecks
    /\ failure = "BranchAlreadyExists"

\* C18: a run chained with publish that gets through the push ends in
\* process.exit, with 0 when publishMain succeeded and with 1 when it failed;
\* the error of publishMain never reaches the handler's catch. A run that is
\* not chained never exits this way.
C18_ExitCodeReflectsPublish ==
    command = "release" =>
        /\ pc = "exited"
              => /\ argv.publish
                 /\ exitCode = IF tape["publishMain"] = "ok" THEN "0" ELSE "1"
                 /\ failure = "none"
                 /\ calls["publishMain"] = 1
        /\ pc = "returned" /\ failure = "none" => ~argv.publish
        /\ pc # "exited" => exitCode = "none"

C18_Witness ==
    /\ pc = "exited" /\ exitCode = "1"
    /\ tape["publishMain"] = "fail"
    /\ failure = "none"

ChangelogErrors ==
    {"InvalidChangelogPath", "ChangelogDoesNotExist", "NoChangelogEntry"}

GitMethods ==
    {"status", "revparse", "checkoutLocalBranch", "commit", "push"}

\* the policy the handler passes to checkChangelog
PolicyPassed ==
    IF argv.noChangelog \/ tape["changelogPolicy"] = "undefined"
        THEN "none"
        ELSE tape["changelogPolicy"]

\* C19 as claimed: under policy 'none' (or with noChangelog) the changelog
\* check passes and reads no file; under 'simple' it fails exactly when the
\* file does not exist or holds no section for the version; when it fails no
\* git operation has been performed.
C19_ChangelogCheckAsClaimed ==
    command = "release" /\ "checkChangelog" \in Range(entered) =>
        /\ PolicyPassed = "none"
              => "changelog" \notin DOMAIN tape /\ failure \notin ChangelogErrors
        /\ PolicyPassed = "simple"
              => (failure \in ChangelogErrors
                    <=> tape["changelog"] \in {"missing", "noEntry"})
        /\ failure \in ChangelogErrors
              => pc = "returned" /\ \A m \in GitMethods : calls[m] = 0

\* C19 as amended: under policy 'none' (or with noChangelog) the changelog
\* check passes and reads no file; under 'simple' it fails exactly when the
\* path leaves the working directory, the file does not exist, it holds no
\* section for the version, or the section's body is empty; when it fails no
\* git operation has been performed.
C19_ChangelogCheck ==
    command = "release" /\ "checkChangelog" \in Range(entered) =>
        /\ PolicyPassed = "none"
              => "changelog" \notin DOMAIN tape /\ failure \notin ChangelogErrors
        /\ PolicyPassed = "simple"
              => (failure \in ChangelogErrors
                    <=> tape["changelog"] \in {"badPath", "missing", "noEntry",
                                               "emptyBody"})
        /\ failure \in ChangelogErrors
              => pc = "returned" /\ \A m \in GitMethods : calls[m] = 0

C19_Witness ==
    /\ command = "release" /\ ~argv.noChangelog
    /\ failure = "NoChangelogEntry"
    /\ pc = "returned"
    /\ tape["changelogPolicy"] = "simple"
    /\ tape["changelog"] = "emptyBody"

ConfigurationErrors == {"InvalidChangelogPolicy", "GithubTokenNotFound"}

\* C20: a changelog policy that is neither 'none' nor 'simple' fails the
\* changelog check, and a missing GITHUB_API_TOKEN fails getGithubClient;
\* a run that failed with either error has ended and has called neither
\* checkoutLocalBranch nor the hook nor commit nor push.
C20_ConfigurationErrorBeforeMutation ==
    command = "release" =>
        /\ "checkChangelog" \in Range(entered)
           /\ PolicyPassed \notin {"none", "simple"}
              => failure = "InvalidChangelogPolicy"
        /\ "getGithubClient" \in Range(entered)
           /\ tape["GITHUB_API_TOKEN"] = "unset"
              => failure = "GithubTokenNotFound"
        /\ failure \in ConfigurationErrors
              => /\ pc = "returned"
                 /\ \A m \in {"checkoutLocalBranch", "spawnProcess", "commit",
                               "push"} : calls[m] = 0
                 /\ git = gitAtStart

C20_Witness ==
    /\ command = "release"
    /\ failure = "GithubTokenNotFound"
    /\ pc = "returned"
    /\ entered = <<"checkChangelog", "getGithubClient">>
    /\ ~argv.noChangelog
    /\ tape["changelogPolicy"] = "simple"

\* the credentials target t needs are not all in the environment
MissingCredentials(t) ==
    IF targets[t].kind = "pypi"
        THEN ~env.TWINE_USERNAME \/ ~env.TWINE_PASSWORD
        ELSE ~env.GITHUB_API_TOKEN

\* C21: a target whose credentials are missing from the environment is never
\* constructed: no target object exists, it never asks for a listing, never
\* downloads and never uploads, and when every target of a kind is
\* misconfigured the destination of that kind is never called.
C21_MisconfiguredTargetNeverActs ==
    command = "publish" =>
        /\ \A t \in TargetIds :
             MissingCredentials(t)
                => /\ tpc[t] = "noTarget"
                   /\ listPromise[t] = 0
                   /\ received[t] = NotReceived
                   /\ release[t] = -1
                   /\ \A a \in ArtifactNames : subs[t][a] = NoSub
        /\ (\A t \in TargetIds : targets[t].kind = "pypi" => MissingCredentials(t))
              => calls["twineUpload"] = 0
        /\ (\A t \in TargetIds : targets[t].kind = "github" => MissingCredentials(t))
              => \A m \in {"getReleaseByTag", "getContent", "createRelease",
                            "uploadAsset"} : calls[m] = 0

C21_Witness ==
    /\ command = "publish"
    /\ targets["t2"].kind = "pypi" /\ env.TWINE_USERNAME /\ ~env.TWINE_PASSWORD
    /\ tpc["t2"] = "noTarget"
    /\ tpc["t1"] = "done" /\ artifacts["t1"] # <<>>

\* C22 as claimed: in a dry run runPreReleaseCommand spawns no process.
C22_DryRunNoHook ==
    command = "release" /\ dryRun => calls["spawnProcess"] = 0

\* C23 as claimed: in a dry run a PyPI target never spawns twine upload for
\* an artifact, and its publish does not fail for an upload.
C23_DryRunNoTwineUpload ==
    command = "publish" /\ dryRun
        => /\ calls["twineUpload"] = 0
           /\ \A t \in TargetIds : \A a \in ArtifactNames :
                targets[t].kind = "pypi" => subs[t][a].st # "uploading"

\* C24: with noPush the push step never calls git.push and never fails: a
\* run that enters it goes on to Done, or to Publishing when chained, as it
\* does after a successful push.
C24_NoPushNeverPushesNorFails ==
    command = "release" /\ argv.noPush =>
        /\ calls["push"] = 0
        /\ failure # "PushFailed"
        /\ "pushReleaseBranch" \in Range(entered)
              => /\ failure = "none"
                 /\ entered[Len(entered)] = "pushReleaseBranch" => pc = "finish"
                 /\ entered[Len(entered)] # "pushReleaseBranch"
                       => entered[Len(entered)]
                            = IF argv.publish THEN "publishing" ELSE "done"

C24_Witness ==
    /\ command = "release" /\ argv.noPush /\ ~dryRun
    /\ calls["commit"] = 1
    /\ pc = "returned"
    /\ entered[Len(entered)] = "done"

\* C25: for every revision info the three predicates never answer true
\* together in pairs, and once all three have answered exactly one of them
\* has answered true.
C25_ExactlyOnePredicate ==
    command = "query" =>
        /\ Cardinality({p \in Predicates : answers[p] = "true"}) <= 1
        /\ (\A p \in Predicates : answers[p] # "unasked")
              => Cardinality({p \in Predicates : answers[p] = "true"}) = 1

C25_Witness ==
    /\ command = "query"
    /\ revisionInfo = [status |-> "FINISHED", result |-> "undefined"]
    /\ answers["isRevisionFailed"] = "true"
    /\ answers["isRevisionBuiltSuccessfully"] = "false"
    /\ answers["isRevisionPending"] = "false"

\* C26 as claimed: getTargetByName returns the registered constructor for
\* brew, github, npm, nuget and pypi, and undefined for every other name.
C26_UnknownNameUndefined ==
    command = "query" /\ lookedUp # NoLookup =>
        lookedUp.result =
            CASE lookedUp.name = "brew"   -> "BrewTarget"
              [] lookedUp.name = "github" -> "GithubTarget"
              [] lookedUp.name = "npm"    -> "NpmTarget"
              [] lookedUp.name = "nuget"  -> "NugetTarget"
              [] lookedUp.name = "pypi"   -> "PypiTarget"
              [] OTHER                    -> "undefined"

\* C27: a failed download stays in the store's cache: the client is never
\* asked again for that download_url, and every downloadArtifact call for it,
\* earlier or later, gets the one rejected promise and so never a path.
C27_FailedDownloadMemoized ==
    command = "publish" =>
        \A i \in DOMAIN promises :
            promises[i].kind = "download" /\ promises[i].state = "rejected"
                => /\ downloadCache[promises[i].key] = i
                   /\ Transports("download", promises[i].key) = {i}
                   /\ \A t \in TargetIds : \A a \in ArtifactNames :
                        download_url(a) = promises[i].key /\ subs[t][a].promise # 0
                            => /\ subs[t][a].promise = i
                               /\ subs[t][a].st \in {"downloading", "failed"}
                               /\ subs[t][a].path = <<>>

C27_Witness ==
    \E a \in ArtifactNames :
        /\ subs["t1"][a].st = "failed" /\ subs["t2"][a].st = "failed"
        /\ subs["t1"][a].promise = subs["t2"][a].promise
        /\ promises[subs["t1"][a].promise].state = "rejected"

\* the status lists that are not empty when commitNewVersion asks for the
\* status: what the run started with and what the hook left
StatusAtCommit ==
    gitAtStart.dirty
        \cup (IF "hookChanges" \in DOMAIN tape THEN tape["hookChanges"] ELSE {})

\* C28: commitNewVersion fails with NothingToCommit exactly when the created
\* and the modified list are both empty, whatever the deleted, renamed,
\* staged and conflicted lists hold; it then has not called git.commit, and
\* the run ends there.
C28_NothingToCommitIffNoCreatedNoModified ==
    command = "release" /\ "commitNewVersion" \in Range(entered) =>
        /\ failure = "NothingToCommit"
              <=> StatusAtCommit \cap {"created", "modified"} = {}
        /\ failure = "NothingToCommit"
              => /\ calls["commit"] = 0
                 /\ calls["push"] = 0
                 /\ pc = "returned"

C28_Witness ==
    /\ command = "release" /\ ~dryRun
    /\ failure = "NothingToCommit"
    /\ "hookChanges" \in DOMAIN tape
    /\ tape["hookChanges"] = {"deleted"}
    /\ calls["spawnProcess"] = 1

\* C29: whatever error a step of the release handler raises before the
\* hand-over to publish, the handler catches it and returns normally, and
\* process.exit is not called; the only way to exit code 1 is a failed
\* publish after all steps have succeeded.
C29_HandlerNeverPropagates ==
    command = "release" =>
        /\ failure # "none" => pc = "returned" /\ exitCode = "none"
        /\ pc \in {"checkChangelog", "getGithubClient", "getDefaultBranch",
                    "checkGitState", "createReleaseBranch", "runPreReleaseCommand",
                    "commitNewVersion", "pushReleaseBranch", "finish",
                    "execPublish", "returned", "exited"}
        /\ exitCode = "1"
              => failure = "none" /\ entered[Len(entered)] = "publishing"

C29_Witness ==
    /\ command = "release" /\ argv.publish
    /\ failure = "CommitFailed"
    /\ pc = "returned"
    /\ exitCode = "none"

\* what both readings of C30 share: an error of getReleaseByTag other than a
\* 404 fails the call before getFile and createRelease, and only a 404
\* leads to getFile and createRelease
PropagatedUnlessNotFound(t) ==
    /\ creation[t].response = "error"
          => /\ tpc[t] = "failed"
             /\ creation[t].changelog = "unasked"
             /\ creation[t].name = "none"
             /\ release[t] = -1
    /\ creation[t].changelog # "unasked" => creation[t].response = "404"
    /\ creation[t].name # "none" => creation[t].response = "404"

\* getFile has answered target t on the create path, and there is no
\* changelog file or no section for the tag in it
NoChangesFound(t) ==
    /\ creation[t].response = "404"
    /\ creation[t].changelog \in {"404", "noChangeset"}

\* C30 as claimed: a getReleaseByTag error other than a 404 is propagated
\* and neither getFile nor createRelease is called; only a 404 leads to the
\* create path, and there a missing changelog file or a missing changeset
\* still has createRelease called with the tag for the name.
C30_CreatePathAlwaysCreates ==
    command = "publish" =>
        \A t \in TargetIds :
            /\ PropagatedUnlessNotFound(t)
            /\ NoChangesFound(t) => creation[t].name = Tag

\* C30 as amended: as claimed, but on the create path createRelease is
\* called with the tag for the name only in a live run; in a dry run it is
\* not called and the placeholder release (id 0) is returned.
C30_CreatePathCreatesWhenLive ==
    command = "publish" =>
        \A t \in TargetIds :
            /\ PropagatedUnlessNotFound(t)
            /\ NoChangesFound(t)
                  => IF shouldPerform
                       THEN /\ creation[t].name = Tag
                            /\ tpc[t] # "getFile"
                            /\ calls["createRelease"] >= 1
                       ELSE /\ creation[t].name = "none"
                            /\ release[t] = 0
                            /\ calls["createRelease"] = 0

C30_Witness ==
    \E t \in TargetIds :
        /\ ~dryRun
        /\ creation[t] = [response |-> "404", changelog |-> "404", name |-> Tag]
        /\ release[t] = 1
        /\ tpc[t] = "done"

=============================================================================
